---- MODULE Spec2Model ----
(***************************************************************************)
(* State-machine model of src/filesystem.c: a fixed pool of storage        *)
(* blocks, a block occupancy map, a file table and the operations          *)
(* create_file, write_file, read_file and delete_file.                     *)
(*                                                                         *)
(* The program's capacities are scaled down so that the state space is     *)
(* finite and small; the relations between them are the source's           *)
(* (MAX_BLOCKS = MAX_STORAGE / BLOCK_SIZE, MAX_FILE_SIZE = MAX_STORAGE).   *)
(* size_t is an unsigned integer of SIZE_BITS bits: every size_t addition  *)
(* and subtraction of the source is taken modulo SIZE_MOD.                 *)
(*                                                                         *)
(* Every function of the source is an operator from the FileSystem value   *)
(* fs and the arguments to the result of the call: the FileSystem it       *)
(* leaves and the record of the call (return value, message, output).      *)
(***************************************************************************)
EXTENDS Integers, Sequences, FiniteSets, TLC

(* ------------------------------------------------------------------ *)
(* Program constants (scaled)                                          *)
(* ------------------------------------------------------------------ *)
BLOCK_SIZE    == 2
MAX_FILES     == 3
MAX_STORAGE   == 4 * BLOCK_SIZE
MAX_BLOCKS    == MAX_STORAGE \div BLOCK_SIZE
MAX_FILENAME  == 3
MAX_FILE_SIZE == MAX_STORAGE

(* width of size_t *)
SIZE_BITS == 4
SIZE_MOD  == 2 ^ SIZE_BITS
SIZE_MAX  == SIZE_MOD - 1

(* size_t arithmetic *)
Add(a, b) == (a + b) % SIZE_MOD
Sub(a, b) == (a - b + SIZE_MOD) % SIZE_MOD

(* ------------------------------------------------------------------ *)
(* Bounds of the model: the inputs the operations are called with      *)
(* ------------------------------------------------------------------ *)
MaxData == 3    \* longest string handed to write_file

MaxList == 2    \* longest block list handed to free_blocks on its own

(* the null pointer, told apart from every string and buffer *)
NULL == <<-1>>

(* the caller's buffer, as handed to read_file *)
BUFFER == <<>>

BlockIdx == 0 .. MAX_BLOCKS - 1
SlotIdx  == 0 .. MAX_FILES - 1
Char     == {1, 2}           \* the non-NUL byte values
Byte     == {0} \cup Char

RECURSIVE StringsUpTo(_)
StringsUpTo(n) ==
    IF n = 0 THEN {<<>>}
    ELSE LET S == StringsUpTo(n - 1)
         IN  S \cup {Append(s, c) : s \in {t \in S : Len(t) = n - 1}, c \in Char}

(* C strings: sequences of non-NUL bytes *)
Datas == StringsUpTo(MaxData)

(* file names handed to the operations: the empty name, two names that   *)
(* fit in filename[MAX_FILENAME] and one that does not                    *)
Names == {<<>>, <<1>>, <<1, 2>>, <<1, 2, 1>>}

(* ------------------------------------------------------------------ *)
(* State: the global FileSystem fs, and the last call with its result  *)
(*                                                                     *)
(* A FileEntry's blocks[] is kept as the sequence of its first         *)
(* num_blocks entries (blocks[k] of the source is blocks[k+1] here).   *)
(* The entries from num_blocks on are written by allocate_blocks and   *)
(* left behind by delete_file, and no function reads them: every loop  *)
(* over blocks[] is bounded by num_blocks.                             *)
(* ------------------------------------------------------------------ *)
VARIABLES
    blocks,         \* fs.blocks[MAX_BLOCKS][BLOCK_SIZE]
    block_map,      \* fs.block_map[MAX_BLOCKS]
    file_table,     \* fs.file_table[MAX_FILES]
    num_files,      \* fs.num_files
    used_blocks,    \* fs.used_blocks
    total_storage,  \* fs.total_storage
    call            \* the last call: operation, arguments, return value, output

fsvars == <<blocks, block_map, file_table, num_files, used_blocks, total_storage>>
vars   == <<blocks, block_map, file_table, num_files, used_blocks, total_storage, call>>

(* the FileSystem value of the current state *)
FS == [blocks |-> blocks, block_map |-> block_map, file_table |-> file_table,
       num_files |-> num_files, used_blocks |-> used_blocks,
       total_storage |-> total_storage]

ZeroBlock == [p \in 0 .. BLOCK_SIZE - 1 |-> 0]

FreeEntry == [filename |-> <<>>, size |-> 0, num_blocks |-> 0, blocks |-> <<>>,
              in_use |-> FALSE]

Call(op, filename, offset, size, data, ret, err, bytes, out) ==
    [op |-> op, filename |-> filename, offset |-> offset, size |-> size,
     data |-> data, ret |-> ret, err |-> err, bytes |-> bytes, out |-> out]

NoCall == Call("none", NULL, 0, 0, NULL, 0, "", 0, <<>>)

(* return -1 after the message err, nothing written *)
Fail(fs, op, filename, offset, size, data, err) ==
    [fs |-> fs, call |-> Call(op, filename, offset, size, data, -1, err, 0, <<>>)]

init_filesystem ==
    /\ blocks = [b \in BlockIdx |-> ZeroBlock]
    /\ block_map = [b \in BlockIdx |-> FALSE]
    /\ file_table = [i \in SlotIdx |-> FreeEntry]
    /\ num_files = 0
    /\ used_blocks = 0
    /\ total_storage = 0

Init == init_filesystem /\ call = NoCall

(* strncpy(dst, src, MAX_FILENAME - 1); dst[MAX_FILENAME - 1] = 0: the string *)
(* left in dst is the first MAX_FILENAME - 1 characters of src                *)
strncpy(src) ==
    IF Len(src) <= MAX_FILENAME - 1 THEN src ELSE SubSeq(src, 1, MAX_FILENAME - 1)

(* find_file: index of the first in-use entry with that name, MAX_FILES if none *)
find_file(fs, filename) ==
    LET hits == {i \in SlotIdx : fs.file_table[i].in_use
                                   /\ fs.file_table[i].filename = filename}
    IN  IF hits = {} THEN MAX_FILES ELSE CHOOSE i \in hits : \A j \in hits : i <= j

(* ------------------------------------------------------------------ *)
(* Allocator                                                           *)
(* ------------------------------------------------------------------ *)

(* found_sequence with the occupancy of the blocks after the first not tested *)
found_sequence_first_only(bm, i, num_blocks) ==
    Add(i, num_blocks) <= MAX_BLOCKS

(* found_sequence with the last block of the run not tested *)
found_sequence_but_last(bm, i, num_blocks) ==
    \A j \in 0 .. num_blocks - 2 : ~(Add(i, j) >= MAX_BLOCKS \/ bm[Add(i, j)])

(* inner loop of allocate_blocks: num_blocks free blocks start at i *)
found_sequence(bm, i, num_blocks) ==
    \A j \in 0 .. num_blocks - 1 : ~(Add(i, j) >= MAX_BLOCKS \/ bm[Add(i, j)])

(* scattered that gives up at the first occupied block *)
RECURSIVE scattered_until_occupied(_, _, _)
scattered_until_occupied(st, i, num_blocks) ==
    IF ~(i < MAX_BLOCKS /\ st.allocated < num_blocks) THEN st
    ELSE IF ~st.block_map[i]
         THEN scattered_until_occupied(
                        [allocated   |-> st.allocated + 1,
                         block_map   |-> [st.block_map EXCEPT ![i] = TRUE],
                         block_list  |-> Append(st.block_list, i),
                         used_blocks |-> Add(st.used_blocks, 1)],
                        i + 1, num_blocks)
         ELSE st

(* second loop of allocate_blocks, from index i on: takes every free block *)
(* in ascending order until `allocated` reaches num_blocks                 *)
RECURSIVE scattered(_, _, _)
scattered(st, i, num_blocks) ==
    IF ~(i < MAX_BLOCKS /\ st.allocated < num_blocks) THEN st
    ELSE IF ~st.block_map[i]
         THEN scattered([allocated   |-> st.allocated + 1,
                         block_map   |-> [st.block_map EXCEPT ![i] = TRUE],
                         block_list  |-> Append(st.block_list, i),
                         used_blocks |-> Add(st.used_blocks, 1)],
                        i + 1, num_blocks)
         ELSE scattered(st, i + 1, num_blocks)

(* allocate_blocks without the second loop: nothing when there is no run *)
allocate_blocks_runs_only(num_blocks, bm, ub) ==
    LET same == [allocated |-> 0, block_map |-> bm, block_list |-> <<>>,
                 used_blocks |-> ub]
        runs == {i \in BlockIdx : ~bm[i] /\ found_sequence(bm, i, num_blocks)}
    IN  IF num_blocks = 0 \/ num_blocks > MAX_BLOCKS THEN same
        ELSE IF Add(ub, num_blocks) > MAX_BLOCKS THEN same
        ELSE IF runs # {}
        THEN LET i == CHOOSE r \in runs : \A q \in runs : r <= q
             IN  [allocated   |-> num_blocks,
                  block_map   |-> [b \in BlockIdx |->
                                     IF b >= i /\ b < i + num_blocks THEN TRUE ELSE bm[b]],
                  block_list  |-> [k \in 1 .. num_blocks |-> i + (k - 1)],
                  used_blocks |-> Add(ub, num_blocks)]
        ELSE same

(* allocate_blocks(num_blocks, block_list) on the map bm and the counter ub: *)
(* the number allocated, the new map and counter, and the entries           *)
(* block_list[0 .. allocated-1] it has written                              *)
allocate_blocks(num_blocks, bm, ub) ==
    LET same == [allocated |-> 0, block_map |-> bm, block_list |-> <<>>,
                 used_blocks |-> ub]
        runs == {i \in BlockIdx : ~bm[i] /\ found_sequence(bm, i, num_blocks)}
    IN  IF num_blocks = 0 \/ num_blocks > MAX_BLOCKS THEN same
        ELSE IF Add(ub, num_blocks) > MAX_BLOCKS THEN same
        ELSE IF runs # {}
        THEN LET i == CHOOSE r \in runs : \A q \in runs : r <= q
             IN  [allocated   |-> num_blocks,
                  block_map   |-> [b \in BlockIdx |->
                                     IF b >= i /\ b < i + num_blocks THEN TRUE ELSE bm[b]],
                  block_list  |-> [k \in 1 .. num_blocks |-> i + (k - 1)],
                  used_blocks |-> Add(ub, num_blocks)]
        ELSE scattered(same, 0, num_blocks)

(* release that leaves the block marked occupied *)
release_keep_map(st, b) ==
    [blocks      |-> [st.blocks EXCEPT ![b] = ZeroBlock],
     block_map   |-> st.block_map,
     used_blocks |-> Sub(st.used_blocks, 1)]

(* release that does not count the block as released *)
release_no_count(st, b) ==
    [blocks      |-> [st.blocks EXCEPT ![b] = ZeroBlock],
     block_map   |-> [st.block_map EXCEPT ![b] = FALSE],
     used_blocks |-> st.used_blocks]

(* release that leaves the content of the block *)
release_no_clear(st, b) ==
    [blocks      |-> st.blocks,
     block_map   |-> [st.block_map EXCEPT ![b] = FALSE],
     used_blocks |-> Sub(st.used_blocks, 1)]

(* body of the loop of free_blocks for one occupied block b of st =        *)
(* [blocks, block_map, used_blocks]                                        *)
release(st, b) ==
    [blocks      |-> [st.blocks EXCEPT ![b] = ZeroBlock],
     block_map   |-> [st.block_map EXCEPT ![b] = FALSE],
     used_blocks |-> Sub(st.used_blocks, 1)]

(* free_blocks_from that does not test whether the block is occupied *)
RECURSIVE free_blocks_from_any(_, _, _, _)
free_blocks_from_any(i, num_blocks, block_list, st) ==
    IF ~(i < num_blocks) THEN st
    ELSE IF block_list[i + 1] < MAX_BLOCKS
         THEN free_blocks_from_any(i + 1, num_blocks, block_list,
                                   release(st, block_list[i + 1]))
         ELSE free_blocks_from_any(i + 1, num_blocks, block_list, st)

(* free_blocks(num_blocks, block_list), from list position i on *)
RECURSIVE free_blocks_from(_, _, _, _)
free_blocks_from(i, num_blocks, block_list, st) ==
    IF ~(i < num_blocks) THEN st
    ELSE IF block_list[i + 1] < MAX_BLOCKS /\ st.block_map[block_list[i + 1]]
         THEN free_blocks_from(i + 1, num_blocks, block_list, release(st, block_list[i + 1]))
         ELSE free_blocks_from(i + 1, num_blocks, block_list, st)

free_blocks(num_blocks, block_list, st) == free_blocks_from(0, num_blocks, block_list, st)

(* ------------------------------------------------------------------ *)
(* create_file                                                         *)
(* ------------------------------------------------------------------ *)

(* blocks_needed that rounds down *)
blocks_needed_floor(size) == size \div BLOCK_SIZE

(* number of blocks of a file of `size` bytes, rounded up *)
blocks_needed(size) == Sub(Add(size, BLOCK_SIZE), 1) \div BLOCK_SIZE

(* free_slot that takes the last entry that is not in use *)
free_slot_last(fs) ==
    LET free == {i \in SlotIdx : ~fs.file_table[i].in_use}
    IN  IF free = {} THEN MAX_FILES ELSE CHOOSE i \in free : \A j \in free : i >= j

(* the first entry of the file table that is not in use, MAX_FILES if none *)
free_slot(fs) ==
    LET free == {i \in SlotIdx : ~fs.file_table[i].in_use}
    IN  IF free = {} THEN MAX_FILES ELSE CHOOSE i \in free : \A j \in free : i <= j

create_file(fs, filename, size) ==
    LET fail(err)  == Fail(fs, "create", filename, 0, size, NULL, err)
        num_blocks == blocks_needed(size)
        file_index == free_slot(fs)
    IN  IF filename = NULL \/ Len(filename) = 0 THEN fail("invalid_name")
        ELSE IF size = 0 THEN fail("size_zero")
        ELSE IF size > MAX_FILE_SIZE THEN fail("size_limit")
        ELSE IF find_file(fs, filename) # MAX_FILES THEN fail("exists")
        ELSE IF fs.num_files >= MAX_FILES THEN fail("max_files")
        ELSE IF Add(fs.used_blocks, num_blocks) > MAX_BLOCKS THEN fail("no_space")
        ELSE IF file_index = MAX_FILES THEN fail("no_slot")
        ELSE LET a == allocate_blocks(num_blocks, fs.block_map, fs.used_blocks)
                 allocated == [blocks |-> fs.blocks, block_map |-> a.block_map,
                               used_blocks |-> a.used_blocks]
             IN  IF a.allocated < num_blocks
                 THEN \* the blocks obtained are released again
                      LET f == IF a.allocated > 0
                               THEN free_blocks(a.allocated, a.block_list, allocated)
                               ELSE allocated
                      IN  [fs   |-> [fs EXCEPT !.blocks = f.blocks,
                                               !.block_map = f.block_map,
                                               !.used_blocks = f.used_blocks],
                           call |-> Call("create", filename, 0, size, NULL, -1,
                                         "alloc_failed", 0, <<>>)]
                 ELSE [fs   |-> [fs EXCEPT
                                   !.block_map = a.block_map,
                                   !.used_blocks = a.used_blocks,
                                   !.file_table[file_index] =
                                        [filename   |-> strncpy(filename),
                                         size       |-> size,
                                         num_blocks |-> num_blocks,
                                         blocks     |-> a.block_list,
                                         in_use     |-> TRUE],
                                   !.num_files = Add(fs.num_files, 1),
                                   !.total_storage = Add(fs.total_storage, size)],
                       call |-> Call("create", filename, 0, size, NULL, 0, "", 0, <<>>)]

(* ------------------------------------------------------------------ *)
(* delete_file                                                         *)
(* ------------------------------------------------------------------ *)
(* delete_file that leaves num_files as it was *)
delete_file_keep_count(fs, filename) ==
    LET fail(err) == Fail(fs, "delete", filename, 0, 0, NULL, err)
        file      == find_file(fs, filename)
    IN  IF filename = NULL THEN fail("invalid_name")
        ELSE IF file = MAX_FILES THEN fail("not_found")
        ELSE LET f == free_blocks(fs.file_table[file].num_blocks,
                                  fs.file_table[file].blocks,
                                  [blocks |-> fs.blocks, block_map |-> fs.block_map,
                                   used_blocks |-> fs.used_blocks])
             IN  [fs   |-> [fs EXCEPT
                               !.blocks = f.blocks,
                               !.block_map = f.block_map,
                               !.used_blocks = f.used_blocks,
                               !.total_storage =
                                    Sub(fs.total_storage, fs.file_table[file].size),
                               !.file_table[file] = FreeEntry],
                  call |-> Call("delete", filename, 0, 0, NULL, 0, "", 0, <<>>)]

delete_file(fs, filename) ==
    LET fail(err) == Fail(fs, "delete", filename, 0, 0, NULL, err)
        file      == find_file(fs, filename)
    IN  IF filename = NULL THEN fail("invalid_name")
        ELSE IF file = MAX_FILES THEN fail("not_found")
        ELSE LET f == free_blocks(fs.file_table[file].num_blocks,
                                  fs.file_table[file].blocks,
                                  [blocks |-> fs.blocks, block_map |-> fs.block_map,
                                   used_blocks |-> fs.used_blocks])
             IN  [fs   |-> [fs EXCEPT
                               !.blocks = f.blocks,
                               !.block_map = f.block_map,
                               !.used_blocks = f.used_blocks,
                               !.total_storage =
                                    Sub(fs.total_storage, fs.file_table[file].size),
                               !.num_files = Sub(fs.num_files, 1),
                               !.file_table[file] = FreeEntry],
                  call |-> Call("delete", filename, 0, 0, NULL, 0, "", 0, <<>>)]

(* ------------------------------------------------------------------ *)
(* write_file                                                          *)
(* ------------------------------------------------------------------ *)

(* memcpy_in that copies from the start of data on every round *)
memcpy_in_from_start(blks, block_index, pos, data, from, n) ==
    [blks EXCEPT ![block_index] =
        [p \in 0 .. BLOCK_SIZE - 1 |->
            IF p >= pos /\ p < pos + n THEN data[(p - pos) + 1] ELSE @[p]]]

(* memcpy_in that clears the bytes of the block it does not copy to *)
memcpy_in_clearing(blks, block_index, pos, data, from, n) ==
    [blks EXCEPT ![block_index] =
        [p \in 0 .. BLOCK_SIZE - 1 |->
            IF p >= pos /\ p < pos + n THEN data[from + (p - pos) + 1] ELSE 0]]

(* memcpy(&fs.blocks[block_index][pos], &data[from], n), n <= BLOCK_SIZE - pos *)
memcpy_in(blks, block_index, pos, data, from, n) ==
    [blks EXCEPT ![block_index] =
        [p \in 0 .. BLOCK_SIZE - 1 |->
            IF p >= pos /\ p < pos + n THEN data[from + (p - pos) + 1] ELSE @[p]]]

(* the while loop of write_file; st = [blocks, bytes_written, current_block, *)
(* current_pos]                                                             *)
RECURSIVE write_loop(_, _, _)
write_loop(file, data, st) ==
    LET data_len == Len(data)
    IN  IF ~(st.bytes_written < data_len /\ st.current_block < file.num_blocks) THEN st
        ELSE LET block_index == file.blocks[st.current_block + 1]
                 rest        == Sub(data_len, st.bytes_written)
                 bytes_to_write ==
                     IF Add(st.current_pos, rest) > BLOCK_SIZE
                     THEN Sub(BLOCK_SIZE, st.current_pos) ELSE rest
             IN  write_loop(file, data,
                     [blocks        |-> memcpy_in(st.blocks, block_index, st.current_pos,
                                                  data, st.bytes_written, bytes_to_write),
                      bytes_written |-> Add(st.bytes_written, bytes_to_write),
                      current_block |-> st.current_block + 1,
                      current_pos   |-> 0])

(* the two range checks of write_file *)
write_offset_invalid(offset, size) == offset > size

(* write_exceeds that lets a write end one byte after the declared size *)
write_exceeds_by_two(offset, data_len, size) == Add(offset, data_len) > size + 1

write_exceeds(offset, data_len, size) == Add(offset, data_len) > size

(* write_file that copies first and tests the end of the range afterwards *)
write_file_check_after(fs, filename, offset, data) ==
    LET fail(err) == Fail(fs, "write", filename, offset, 0, data, err)
        file      == find_file(fs, filename)
    IN  IF filename = NULL \/ data = NULL THEN fail("params")
        ELSE IF file = MAX_FILES THEN fail("not_found")
        ELSE IF write_offset_invalid(offset, fs.file_table[file].size) THEN fail("offset")
        ELSE LET w == write_loop(fs.file_table[file], data,
                          [blocks        |-> fs.blocks,
                           bytes_written |-> 0,
                           current_block |-> offset \div BLOCK_SIZE,
                           current_pos   |-> offset % BLOCK_SIZE])
             IN  IF write_exceeds(offset, Len(data), fs.file_table[file].size)
                 THEN [fs   |-> [fs EXCEPT !.blocks = w.blocks],
                       call |-> Call("write", filename, offset, 0, data, -1, "exceeds",
                                     0, <<>>)]
                 ELSE [fs   |-> [fs EXCEPT !.blocks = w.blocks],
                       call |-> Call("write", filename, offset, 0, data, 0, "",
                                     w.bytes_written, <<>>)]

write_file(fs, filename, offset, data) ==
    LET fail(err) == Fail(fs, "write", filename, offset, 0, data, err)
        file      == find_file(fs, filename)
    IN  IF filename = NULL \/ data = NULL THEN fail("params")
        ELSE IF file = MAX_FILES THEN fail("not_found")
        ELSE IF write_offset_invalid(offset, fs.file_table[file].size) THEN fail("offset")
        ELSE IF write_exceeds(offset, Len(data), fs.file_table[file].size)
             THEN fail("exceeds")
        ELSE LET w == write_loop(fs.file_table[file], data,
                          [blocks        |-> fs.blocks,
                           bytes_written |-> 0,
                           current_block |-> offset \div BLOCK_SIZE,
                           current_pos   |-> offset % BLOCK_SIZE])
             IN  [fs   |-> [fs EXCEPT !.blocks = w.blocks],
                  call |-> Call("write", filename, offset, 0, data, 0, "",
                                w.bytes_written, <<>>)]

(* ------------------------------------------------------------------ *)
(* read_file                                                           *)
(* ------------------------------------------------------------------ *)

(* the n bytes memcpy takes from &fs.blocks[block_index][pos], n <= BLOCK_SIZE - pos *)
memcpy_out(blks, block_index, pos, n) ==
    [k \in 1 .. n |-> blks[block_index][pos + k - 1]]

(* read_loop that takes the blocks of a file to follow its first block *)
RECURSIVE read_loop_contiguous(_, _, _, _)
read_loop_contiguous(blks, file, bytes_to_read, st) ==
    IF st.overrun \/ ~(st.bytes_read < bytes_to_read /\ st.current_block < file.num_blocks)
    THEN st
    ELSE LET block_index == file.blocks[1] + st.current_block
             rest        == Sub(bytes_to_read, st.bytes_read)
             bytes_to_read_now ==
                 IF Add(st.current_pos, rest) > BLOCK_SIZE
                 THEN Sub(BLOCK_SIZE, st.current_pos) ELSE rest
         IN  IF st.current_pos + bytes_to_read_now > BLOCK_SIZE
             THEN [st EXCEPT !.overrun = TRUE]
             ELSE read_loop_contiguous(blks, file, bytes_to_read,
                     [buffer        |-> st.buffer \o memcpy_out(blks, block_index,
                                                     st.current_pos, bytes_to_read_now),
                      bytes_read    |-> Add(st.bytes_read, bytes_to_read_now),
                      current_block |-> st.current_block + 1,
                      current_pos   |-> 0,
                      overrun       |-> FALSE])

(* the while loop of read_file; st = [buffer, bytes_read, current_block,    *)
(* current_pos, overrun]. overrun: a memcpy was asked for more bytes than   *)
(* the block holds from current_pos on (the size_t sum current_pos +        *)
(* bytes_to_read_now wrapped, so the limit was not applied): the copy runs  *)
(* past the block and past the whole of fs, which is undefined behaviour    *)
RECURSIVE read_loop(_, _, _, _)
read_loop(blks, file, bytes_to_read, st) ==
    IF st.overrun \/ ~(st.bytes_read < bytes_to_read /\ st.current_block < file.num_blocks)
    THEN st
    ELSE LET block_index == file.blocks[st.current_block + 1]
             rest        == Sub(bytes_to_read, st.bytes_read)
             bytes_to_read_now ==
                 IF Add(st.current_pos, rest) > BLOCK_SIZE
                 THEN Sub(BLOCK_SIZE, st.current_pos) ELSE rest
         IN  IF st.current_pos + bytes_to_read_now > BLOCK_SIZE
             THEN [st EXCEPT !.overrun = TRUE]
             ELSE read_loop(blks, file, bytes_to_read,
                     [buffer        |-> st.buffer \o memcpy_out(blks, block_index,
                                                     st.current_pos, bytes_to_read_now),
                      bytes_read    |-> Add(st.bytes_read, bytes_to_read_now),
                      current_block |-> st.current_block + 1,
                      current_pos   |-> 0,
                      overrun       |-> FALSE])

(* read_offset_invalid with the comparison of write_file *)
read_offset_invalid_as_write(offset, size) == offset > size

(* the range check of read_file *)
read_offset_invalid(offset, size) == offset >= size

(* bytes_to_read: the requested size, cut at the end of the file *)
clamp(offset, size, file_size) ==
    IF Add(offset, size) > file_size THEN Sub(file_size, offset) ELSE size

(* what the build may leave in the buffer when the copy overruns *)
Garbage == {<<>>} \cup {<<b>> : b \in Byte}

(* read_file: the set of its possible results (one, unless the behaviour is *)
(* undefined)                                                               *)
read_file(fs, filename, offset, size, buffer) ==
    LET fail(err) == Fail(fs, "read", filename, offset, size, NULL, err)
        file      == find_file(fs, filename)
    IN  IF filename = NULL \/ buffer = NULL \/ size = 0 THEN {fail("params")}
        ELSE IF file = MAX_FILES THEN {fail("not_found")}
        ELSE IF read_offset_invalid(offset, fs.file_table[file].size) THEN {fail("offset")}
        ELSE LET bytes_to_read == clamp(offset, size, fs.file_table[file].size)
                 r == read_loop(fs.blocks, fs.file_table[file], bytes_to_read,
                          [buffer        |-> <<>>,
                           bytes_read    |-> 0,
                           current_block |-> offset \div BLOCK_SIZE,
                           current_pos   |-> offset % BLOCK_SIZE,
                           overrun       |-> FALSE])
             IN  IF r.overrun
                 THEN \* undefined behaviour: the process is killed, or the call
                      \* returns with whatever the copy left in the buffer
                      {[fs |-> fs,
                        call |-> Call("read", filename, offset, size, NULL, 0,
                                      IF killed THEN "killed" ELSE "overrun", Len(g), g)] :
                          g \in Garbage, killed \in BOOLEAN}
                 ELSE {[fs |-> fs,
                        call |-> Call("read", filename, offset, size, NULL, 0, "",
                                      r.bytes_read, r.buffer)]}

(* ------------------------------------------------------------------ *)
(* list_files                                                          *)
(* ------------------------------------------------------------------ *)

(* the for loop of list_files from entry i on: one line, name and size, *)
(* for every entry in use                                               *)
RECURSIVE list_loop(_, _)
list_loop(fs, i) ==
    IF ~(i < MAX_FILES) THEN <<>>
    ELSE (IF fs.file_table[i].in_use
          THEN <<<<fs.file_table[i].filename, fs.file_table[i].size>>>>
          ELSE <<>>) \o list_loop(fs, i + 1)

(* list_files: the lines printed for the files; none when num_files is 0 *)
list_files(fs) ==
    [fs   |-> fs,
     call |-> Call("list", NULL, 0, 0, NULL, 0, "", 0,
                   IF fs.num_files = 0 THEN <<>> ELSE list_loop(fs, 0))]

(* ------------------------------------------------------------------ *)
(* The command loop of main: at the prompt (call = NoCall) one call is *)
(* made; its result stays in `call` until main is back at the prompt.  *)
(* ------------------------------------------------------------------ *)
Running  == call.err # "killed"
AtPrompt == call = NoCall

Step(r) ==
    /\ blocks' = r.fs.blocks
    /\ block_map' = r.fs.block_map
    /\ file_table' = r.fs.file_table
    /\ num_files' = r.fs.num_files
    /\ used_blocks' = r.fs.used_blocks
    /\ total_storage' = r.fs.total_storage
    /\ call' = r.call

Create(args) == \E a \in args : AtPrompt /\ Step(create_file(FS, a[1], a[2]))
Write(args)  == \E a \in args : AtPrompt /\ Step(write_file(FS, a[1], a[2], a[3]))
Read(args)   == \E a \in args : AtPrompt /\ \E r \in read_file(FS, a[1], a[2], a[3], a[4]) : Step(r)
Delete(args) == \E a \in args : AtPrompt /\ Step(delete_file(FS, a[1]))
List         == AtPrompt /\ Step(list_files(FS))
Prompt       == ~AtPrompt /\ Running /\ call' = NoCall /\ UNCHANGED fsvars

(* the arguments of the calls made *)
StoredNames == {strncpy(n) : n \in Names \ {<<>>}}
LongNames   == {n \in Names : Len(n) > MAX_FILENAME - 1}

CreateArgs == ((Names \ {<<>>}) \X (0 .. MAX_FILE_SIZE + 1)) \cup {<<<<>>, 1>>, <<NULL, 1>>}
WriteArgs  == {<<n, a[1], a[2]>> : n \in StoredNames,
                  a \in {<<1, <<1, 2>>>>, <<1, <<>>>>, <<BLOCK_SIZE, <<>>>>}}
                 \cup {<<NULL, 0, <<1>>>>, <<<<1>>, 0, NULL>>}
ReadArgs   == {<<n, a[1], a[2], BUFFER>> : n \in StoredNames,
                  a \in {<<0, 0>>, <<0, 1>>, <<1, BLOCK_SIZE + 1>>, <<BLOCK_SIZE, 1>>,
                         <<0, SIZE_MAX>>, <<1, SIZE_MAX>>, <<BLOCK_SIZE, SIZE_MAX - 1>>}}
                 \cup {<<NULL, 0, 1, BUFFER>>, <<<<1>>, 0, 1, NULL>>}
DeleteArgs == {<<n>> : n \in (Names \ {<<>>}) \cup {NULL}}

Next ==
    \/ Create(CreateArgs)
    \/ Write(WriteArgs)
    \/ Read(ReadArgs)
    \/ Delete(DeleteArgs)
    \/ List
    \/ Prompt

Spec == Init /\ [][Next]_vars

(* ------------------------------------------------------------------ *)
(* Recounts over the file table and the block map                      *)
(* ------------------------------------------------------------------ *)
LiveSlots(fs) == {i \in SlotIdx : fs.file_table[i].in_use}
Occupied(fs)  == {b \in BlockIdx : fs.block_map[b]}

RECURSIVE SumOver(_, _, _)
SumOver(fs, field, i) ==
    IF i = MAX_FILES THEN 0
    ELSE (IF fs.file_table[i].in_use THEN fs.file_table[i][field] ELSE 0)
            + SumOver(fs, field, i + 1)

(* the places <<i, k>> of the block lists of the live files that hold block b *)
Owners(fs, b) ==
    {p \in SlotIdx \X (1 .. MAX_BLOCKS) :
        /\ fs.file_table[p[1]].in_use
        /\ p[2] <= fs.file_table[p[1]].num_blocks
        /\ fs.file_table[p[1]].blocks[p[2]] = b}

(* some live file has a block list that is not a run of consecutive blocks *)
Scattered(file) ==
    \E k \in 1 .. file.num_blocks - 1 : file.blocks[k + 1] # file.blocks[k] + 1

(* ------------------------------------------------------------------ *)
(* Claims                                                              *)
(* ------------------------------------------------------------------ *)

(* C1: in every state reached by create_file, write_file, read_file and   *)
(* delete_file calls from init_filesystem, the sum of num_blocks over the *)
(* in-use entries equals the number of blocks marked occupied.            *)
C1_BlocksAccounted ==
    SumOver(FS, "num_blocks", 0) = Cardinality(Occupied(FS))

(* C1 witness: a file was deleted and another, of several blocks, is live *)
C1_Witness ==
    /\ call.op = "delete" /\ call.ret = 0
    /\ \E i \in LiveSlots(FS) : file_table[i].num_blocks >= 2
    /\ Occupied(FS) # {} /\ Occupied(FS) # BlockIdx

(* C2: a block is marked occupied iff it appears in the block list of     *)
(* exactly one in-use entry, exactly once.                                *)
C2_ExclusiveOwnership ==
    \A b \in BlockIdx : block_map[b] <=> Cardinality(Owners(FS, b)) = 1

(* C2 witness: every block is occupied, and one file holds scattered blocks *)
C2_Witness ==
    /\ Occupied(FS) = BlockIdx
    /\ Cardinality(LiveSlots(FS)) >= 2
    /\ \E i \in LiveSlots(FS) : Scattered(file_table[i])

(* C3: num_files, used_blocks and total_storage agree with a recount, and *)
(* num_files <= MAX_FILES, used_blocks <= MAX_BLOCKS.                     *)
C3_CountersAgree ==
    /\ num_files = Cardinality(LiveSlots(FS))
    /\ used_blocks = Cardinality(Occupied(FS))
    /\ total_storage = SumOver(FS, "size", 0)
    /\ num_files <= MAX_FILES
    /\ used_blocks <= MAX_BLOCKS

(* C3 witness: a delete out of a full table, files left *)
C3_Witness ==
    /\ call.op = "delete" /\ call.ret = 0
    /\ num_files = MAX_FILES - 1
    /\ total_storage > BLOCK_SIZE

(* ------------------------------------------------------------------ *)
(* The calls the claims about single calls range over                  *)
(* ------------------------------------------------------------------ *)
AnyName   == Names \cup {NULL}
FileNames == Names \ {<<>>}
AnySize   == 0 .. SIZE_MAX
AnyOffset == 0 .. MAX_FILE_SIZE + 1

(* the entry find_file returns for name n, when it returns one *)
Found(fs, n) == find_file(fs, n) # MAX_FILES
Entry(fs, n) == fs.file_table[find_file(fs, n)]

(* the m bytes of a file from logical offset o on: byte o lives in block *)
(* blocks[o / BLOCK_SIZE] at position o % BLOCK_SIZE                      *)
Logical(fs, file, o, m) ==
    [k \in 1 .. m |->
        fs.blocks[file.blocks[((o + k - 1) \div BLOCK_SIZE) + 1]][(o + k - 1) % BLOCK_SIZE]]

Min(a, b) == IF a <= b THEN a ELSE b

(* the one result of a read that returns the bytes `out` *)
ReadsExactly(fs, n, o, size, out) ==
    read_file(fs, n, o, size, BUFFER) =
        {[fs |-> fs, call |-> Call("read", n, o, size, NULL, 0, "", Len(out), out)]}

(* the range [o, o + len) crosses a block boundary *)
Straddles(o, len) ==
    len >= 1 /\ (o \div BLOCK_SIZE) # ((o + len - 1) \div BLOCK_SIZE)

(* C4, as amended: for a live file of declared size S, an offset O and a   *)
(* non-empty data of length L with O + L <= S, write_file(name, O, data)   *)
(* succeeds and read_file(name, O, L) then succeeds and returns exactly    *)
(* data, L bytes.                                                          *)
C4_RoundTrip ==
    /\ AtPrompt =>
         \A n \in FileNames :
            Found(FS, n) =>
               \A o \in AnyOffset, d \in Datas \ {<<>>} :
                  \A w \in {write_file(FS, n, o, d)} :
                      /\ o + Len(d) <= Entry(FS, n).size => w.call.ret = 0
                      /\ w.call.ret = 0 =>
                            /\ w.call.bytes = Len(d)
                            /\ ReadsExactly(w.fs, n, o, Len(d), d)
    /\ (call.op = "write" /\ call.ret = 0 /\ call.data # <<>>) =>
           ReadsExactly(FS, call.filename, call.offset, Len(call.data), call.data)

(* C4 witness: a non-empty write into a file of several blocks has returned 0 *)
C4_Witness ==
    /\ call.op = "write" /\ call.ret = 0 /\ Len(call.data) >= 2
    /\ Entry(FS, call.filename).num_blocks >= 2
    /\ ReadsExactly(FS, call.filename, call.offset, Len(call.data), call.data)

(* C4 as stated: also for empty data (L = 0, any O <= S) the read of L     *)
(* bytes at O succeeds and returns data.                                   *)
C4_RoundTripAnyLength ==
    (call.op = "write" /\ call.ret = 0) =>
        ReadsExactly(FS, call.filename, call.offset, Len(call.data), call.data)

(* C5: in a file of 3 blocks, consecutive in the pool or not, a non-empty  *)
(* data whose range [O, O+L) crosses a block boundary and fits in the      *)
(* declared size is written by write_file(name, O, data) and read back     *)
(* exactly by read_file(name, O, L).                                       *)
C5_CrossBlock ==
    /\ AtPrompt =>
         \A n \in FileNames :
            (Found(FS, n) /\ Entry(FS, n).num_blocks = 3) =>
               \A o \in AnyOffset, d \in Datas :
                  (Straddles(o, Len(d)) /\ o + Len(d) <= Entry(FS, n).size) =>
                     LET w == write_file(FS, n, o, d)
                     IN  /\ w.call.ret = 0
                         /\ ReadsExactly(w.fs, n, o, Len(d), d)
                         /\ Logical(w.fs, Entry(FS, n), o, Len(d)) = d
    /\ ( /\ call.op = "write" /\ call.ret = 0
         /\ Entry(FS, call.filename).num_blocks = 3
         /\ Straddles(call.offset, Len(call.data)) ) =>
           ReadsExactly(FS, call.filename, call.offset, Len(call.data), call.data)

(* C5 witness: a write across a block boundary of a file whose 3 blocks    *)
(* are not consecutive has returned 0                                      *)
C5_Witness ==
    /\ call.op = "write" /\ call.ret = 0
    /\ Entry(FS, call.filename).num_blocks = 3
    /\ Scattered(Entry(FS, call.filename))
    /\ Straddles(call.offset, Len(call.data))

(* C6: for a live file of declared size S, an offset O < S and a requested *)
(* size N >= 1 (any size_t value, O + N wrapping or not), read_file        *)
(* produces exactly min(N, S - O) bytes, the logical bytes O ..            *)
(* O + min(N, S - O) - 1 of the file, and no byte at or beyond S.          *)
C6_ReadClamped ==
    ( /\ call.op = "read" /\ call.size >= 1
      /\ Found(FS, call.filename)
      /\ call.offset < Entry(FS, call.filename).size ) =>
        LET file == Entry(FS, call.filename)
            m    == Min(call.size, file.size - call.offset)
        IN  /\ call.ret = 0 /\ call.err = ""
            /\ call.bytes = m
            /\ call.out = Logical(FS, file, call.offset, m)

(* C7: for a live file of declared size S, read_file(name, S, n) fails for *)
(* every n, while write_file(name, S, "") succeeds, writes 0 bytes and     *)
(* leaves every block and every file record unchanged.                     *)
C7_EofAsymmetry ==
    AtPrompt =>
        \A n \in FileNames :
            Found(FS, n) =>
                LET S == Entry(FS, n).size
                IN  /\ \A size \in AnySize, buffer \in {BUFFER, NULL} :
                          \A r \in read_file(FS, n, S, size, buffer) :
                              r.call.ret = -1 /\ r.fs = FS
                    /\ write_file(FS, n, S, <<>>) =
                          [fs |-> FS, call |-> Call("write", n, S, 0, <<>>, 0, "", 0, <<>>)]

(* C7 witness: a read at offset == size of a live file has failed on the offset *)
C7_Witness ==
    /\ call.op = "read" /\ call.ret = -1 /\ call.err = "offset"
    /\ Found(FS, call.filename)
    /\ call.offset = Entry(FS, call.filename).size
    /\ call.size >= 1

(* the range tests of write_file, for every write that can be asked for *)
WriteBounded ==
    AtPrompt =>
        \A n \in FileNames :
            Found(FS, n) =>
                \A o \in AnyOffset \cup {SIZE_MAX}, d \in Datas :
                    \A w \in {write_file(FS, n, o, d)}, S \in {Entry(FS, n).size} :
                        /\ o > S => (w.call.ret = -1 /\ w.call.err = "offset")
                        /\ (o <= S /\ o + Len(d) > S) =>
                               (w.call.ret = -1 /\ w.call.err = "exceeds")
                        /\ o + Len(d) <= S => w.call.ret = 0
                        /\ w.fs.file_table = file_table

(* a write_file step, successful or not, leaves the file table as it was *)
WriteKeepsTable == call'.op = "write" => file_table' = file_table

(* C8: write_file(name, offset, data) on a live file fails whenever        *)
(* offset + len(data) > declared size, on the offset when offset > size,   *)
(* and after any write, successful or not, the file table is as before.    *)
C8_NoGrowth == []WriteBounded /\ [][WriteKeepsTable]_vars

(* C8 witness: a write that starts inside the file and ends after it has failed *)
C8_Witness ==
    /\ call.op = "write" /\ call.ret = -1 /\ call.err = "exceeds"
    /\ call.offset <= Entry(FS, call.filename).size
    /\ call.offset + Len(call.data) > Entry(FS, call.filename).size

(* the request sizes at the edges of read_file's size tests *)
EdgeSizes ==
    {0, 1, BLOCK_SIZE, BLOCK_SIZE + 1, MAX_FILE_SIZE + 1, SIZE_MAX - 1, SIZE_MAX}

(* every call that can be asked for and returns an error changes nothing *)
FailingCallsChangeNothing ==
    AtPrompt =>
        /\ \A n \in AnyName, size \in AnySize :
              \A r \in {create_file(FS, n, size)} : r.call.ret = -1 => r.fs = FS
        /\ \A n \in AnyName, o \in AnyOffset :
              /\ \A d \in Datas :
                    \A r \in {write_file(FS, n, o, d)} : r.call.ret = -1 => r.fs = FS
              /\ \A r \in {write_file(FS, n, o, NULL)} : r.call.ret = -1 /\ r.fs = FS
        /\ \A n \in AnyName, o \in AnyOffset :
              /\ \A size \in EdgeSizes :
                    \A r \in read_file(FS, n, o, size, BUFFER) :
                        r.call.ret = -1 => r.fs = FS
              /\ \A r \in read_file(FS, n, o, 1, NULL) : r.call.ret = -1 /\ r.fs = FS
        /\ \A n \in AnyName :
              \A r \in {delete_file(FS, n)} : r.call.ret = -1 => r.fs = FS

(* a step whose call returns an error leaves the file system as it was *)
FailedStepChangesNothing == call'.ret = -1 => FS' = FS

(* C9: every call that returns an error leaves blocks, block_map, the file *)
(* table and the three counters as they were.                              *)
C9_FailuresLeaveState == []FailingCallsChangeNothing /\ [][FailedStepChangesNothing]_vars

(* C9 witness: a write has failed on a file system that holds written data *)
C9_Witness ==
    /\ call.op = "write" /\ call.ret = -1 /\ call.err = "exceeds"
    /\ \E b \in BlockIdx : blocks[b] # ZeroBlock

(* C10: every block that is not marked occupied holds only zero bytes, and *)
(* every read inside a file that create_file has just made returns only    *)
(* zero bytes.                                                             *)
FreeBlocksZero == \A b \in BlockIdx : ~block_map[b] => blocks[b] = ZeroBlock

NewFileZero ==
    (call'.op = "create" /\ call'.ret = 0) =>
        LET i    == free_slot(FS)
            file == file_table'[i]
            n    == file.filename
        IN  /\ \A k \in 1 .. file.num_blocks : blocks'[file.blocks[k]] = ZeroBlock
            /\ find_file(FS', n) = i =>
                  \A o \in 0 .. file.size - 1 :
                      \A size \in 1 .. file.size - o :
                          ReadsExactly(FS', n, o, size, [k \in 1 .. size |-> 0])

C10_NoLeak == []FreeBlocksZero /\ [][NewFileZero]_vars

(* C10 witness: a file was made out of blocks that do not follow each      *)
(* other, next to a file that holds written data                           *)
C10_Witness ==
    /\ call.op = "create" /\ call.ret = 0
    /\ \E i \in LiveSlots(FS) :
          /\ Scattered(file_table[i])
          /\ \A k \in 1 .. file_table[i].num_blocks :
                blocks[file_table[i].blocks[k]] = ZeroBlock
    /\ \E b \in BlockIdx : blocks[b] # ZeroBlock

(* ------------------------------------------------------------------ *)
(* delete_file and the names of the live files                         *)
(* ------------------------------------------------------------------ *)

(* what a successful delete_file(n) does to blocks, map, counters and table *)
DeleteEffect(fs, n) ==
    LET i    == find_file(fs, n)
        file == fs.file_table[i]
        own  == {file.blocks[k] : k \in 1 .. file.num_blocks}
        r    == delete_file(fs, n)
    IN  /\ r.call.ret = 0
        /\ \A b \in own : ~r.fs.block_map[b] /\ r.fs.blocks[b] = ZeroBlock
        /\ \A b \in BlockIdx \ own :
              r.fs.block_map[b] = fs.block_map[b] /\ r.fs.blocks[b] = fs.blocks[b]
        /\ r.fs.num_files = fs.num_files - 1
        /\ r.fs.total_storage = fs.total_storage - file.size
        /\ r.fs.used_blocks = fs.used_blocks - file.num_blocks
        /\ r.fs.file_table[i] = FreeEntry
        /\ \A j \in SlotIdx \ {i} : r.fs.file_table[j] = fs.file_table[j]

(* after delete_file(n), create_file(n, size of the deleted file) succeeds *)
(* and takes a slot no higher than the one freed                           *)
SameNameReuse(fs, n) ==
    LET i == find_file(fs, n)
        r == delete_file(fs, n)
        c == create_file(r.fs, n, fs.file_table[i].size)
    IN  /\ c.call.ret = 0
        /\ free_slot(r.fs) <= i
        /\ c.fs.file_table[free_slot(r.fs)].in_use

(* C11: a successful delete_file(name) frees and zeroes every block of the *)
(* file, lowers num_files by 1, total_storage by its size and used_blocks  *)
(* by its block count, frees the slot so that a later create_file can      *)
(* reuse it, also under the same name, and leaves every other live file's  *)
(* record and block contents unchanged.                                    *)
C11_DeleteReleases ==
    AtPrompt =>
        \A n \in FileNames :
            Found(FS, n) => (DeleteEffect(FS, n) /\ SameNameReuse(FS, n))

(* the part of C11 that does not speak of the name: holds in every state *)
DeleteFrame ==
    AtPrompt => \A n \in FileNames : Found(FS, n) => DeleteEffect(FS, n)

(* C12: no two in-use entries hold the same stored filename, create_file  *)
(* failing with AlreadyExists whenever a file made under the name (of any *)
(* length) is still live.                                                 *)
C12_UniqueNames ==
    \A i, j \in LiveSlots(FS) :
        file_table[i].filename = file_table[j].filename => i = j

(* ------------------------------------------------------------------ *)
(* The file table: exhaustion and listing                              *)
(* ------------------------------------------------------------------ *)

(* names for a new file: those of the calls made and two never used by them *)
NewNames == FileNames \cup {<<2>>, <<2, 1>>}

ValidSizes == 1 .. MAX_FILE_SIZE

(* size / BLOCK_SIZE rounded up, and the number of free blocks, recounted *)
Ceil(size) == (size + BLOCK_SIZE - 1) \div BLOCK_SIZE
FreeCount(fs) == MAX_BLOCKS - Cardinality(Occupied(fs))

(* C13: with MAX_FILES entries live, create_file with a valid name that no *)
(* live file has and a valid size fails on the full table, enough free     *)
(* blocks or not, and changes nothing; after one delete_file the same      *)
(* create_file succeeds if enough blocks are free.                         *)
C13_TableFull ==
    (AtPrompt /\ Cardinality(LiveSlots(FS)) = MAX_FILES) =>
        \A n \in NewNames, size \in ValidSizes :
            ~Found(FS, n) =>
                LET c == create_file(FS, n, size)
                IN  /\ c.call.ret = -1 /\ c.call.err = "max_files"
                    /\ c.fs = FS
                    /\ \A m \in FileNames :
                          Found(FS, m) =>
                             LET d == delete_file(FS, m)
                             IN  /\ d.call.ret = 0
                                 /\ Ceil(size) <= FreeCount(d.fs) =>
                                       create_file(d.fs, n, size).call.ret = 0

(* C13 witness: create_file has failed on the full table although the     *)
(* free blocks were enough for the file                                   *)
C13_Witness ==
    /\ call.op = "create" /\ call.ret = -1 /\ call.err = "max_files"
    /\ Cardinality(LiveSlots(FS)) = MAX_FILES
    /\ Ceil(call.size) <= FreeCount(FS)

(* the k-th live slot in ascending order, k from 1 *)
SlotAt(fs, k) ==
    CHOOSE i \in LiveSlots(fs) : Cardinality({j \in LiveSlots(fs) : j < i}) = k - 1

(* the listing is the in-use entries in ascending slot order *)
ListedInSlotOrder(fs) ==
    LET out == list_files(fs).call.out
    IN  /\ Len(out) = Cardinality(LiveSlots(fs))
        /\ \A k \in 1 .. Len(out) :
              out[k] = <<fs.file_table[SlotAt(fs, k)].filename,
                         fs.file_table[SlotAt(fs, k)].size>>

(* C14: list_files gives exactly the in-use entries in ascending slot     *)
(* order, and a successful create_file fills the lowest free slot, so the *)
(* new file is listed after the files in lower slots and before those in  *)
(* higher slots, whenever they were made.                                 *)
C14_SlotOrder ==
    AtPrompt =>
        /\ ListedInSlotOrder(FS)
        /\ \A n \in NewNames, size \in ValidSizes :
              LET c     == create_file(FS, n, size)
                  i     == free_slot(FS)
                  below == Cardinality({j \in LiveSlots(FS) : j < i})
              IN  c.call.ret = 0 =>
                     /\ i < MAX_FILES
                     /\ \A j \in 0 .. i - 1 : file_table[j].in_use
                     /\ \A j \in SlotIdx \ {i} : c.fs.file_table[j] = file_table[j]
                     /\ c.fs.file_table[i].in_use
                     /\ ListedInSlotOrder(c.fs)
                     /\ list_files(c.fs).call.out[below + 1] = <<strncpy(n), size>>

(* C14 witness: the file just made is listed first, ahead of a file that  *)
(* was there before it                                                    *)
C14_Witness ==
    /\ call.op = "create" /\ call.ret = 0
    /\ find_file(FS, strncpy(call.filename)) = 0
    /\ file_table[0].size = call.size
    /\ \E j \in LiveSlots(FS) :
          j > 0 /\ file_table[j].filename # file_table[0].filename
    /\ list_files(FS).call.out[1] = <<strncpy(call.filename), call.size>>
    /\ Len(list_files(FS).call.out) >= 2

(* ------------------------------------------------------------------ *)
(* The allocator                                                       *)
(* ------------------------------------------------------------------ *)
BlockCounts == 1 .. MAX_BLOCKS

FreeSet(bm) == {b \in BlockIdx : ~bm[b]}

(* the starts of the runs of n consecutive free blocks *)
Runs(bm, n) ==
    {i \in BlockIdx : i + n <= MAX_BLOCKS /\ \A j \in 0 .. n - 1 : ~bm[i + j]}

Lowest(S) == CHOOSE x \in S : \A y \in S : x <= y

(* the n lowest elements of S in ascending order *)
RECURSIVE LowestN(_, _)
LowestN(S, n) ==
    IF n = 0 \/ S = {} THEN <<>> ELSE <<Lowest(S)>> \o LowestN(S \ {Lowest(S)}, n - 1)

(* bm with the blocks of list marked occupied *)
Marked(bm, list) ==
    [b \in BlockIdx |-> bm[b] \/ \E k \in 1 .. Len(list) : list[k] = b]

(* C15: allocate_blocks(n), 1 <= n <= MAX_BLOCKS, returns n blocks whenever *)
(* n blocks are free in all; when no n of them are consecutive it returns   *)
(* the n lowest free blocks in ascending order and marks them occupied      *)
(* (blocks 0 and 2 free, 1 and 3 occupied: a request for 2 returns 0, 2).   *)
C15_ScatteredFallback ==
    /\ AtPrompt =>
         \A n \in BlockCounts :
            LET a == allocate_blocks(n, block_map, used_blocks)
            IN  Cardinality(FreeSet(block_map)) >= n =>
                   /\ a.allocated = n
                   /\ Len(a.block_list) = n
                   /\ Runs(block_map, n) = {} =>
                         /\ a.block_list = LowestN(FreeSet(block_map), n)
                         /\ a.block_map = Marked(block_map, a.block_list)
                         /\ a.used_blocks = used_blocks + n
    /\ (AtPrompt /\ FreeSet(block_map) = {0, 2}) =>
           allocate_blocks(2, block_map, used_blocks).block_list = <<0, 2>>

(* C15 witness: create_file has made a file out of blocks 0 and 2, blocks *)
(* 1 and 3 being occupied before                                          *)
C15_Witness ==
    /\ call.op = "create" /\ call.ret = 0
    /\ \E i \in LiveSlots(FS) :
          /\ file_table[i].blocks = <<0, 2>>
          /\ file_table[i].filename = strncpy(call.filename)
          /\ file_table[i].size = call.size
    /\ block_map[1] /\ block_map[3]

(* C16: whenever n consecutive free blocks exist, allocate_blocks(n)       *)
(* returns the run with the lowest start, as n consecutive indices in      *)
(* ascending order, marks exactly those occupied, adds n to used_blocks    *)
(* and changes no other entry of block_map.                                *)
C16_FirstFit ==
    AtPrompt =>
        \A n \in BlockCounts :
            Runs(block_map, n) # {} =>
                LET a    == allocate_blocks(n, block_map, used_blocks)
                    i    == Lowest(Runs(block_map, n))
                    list == [k \in 1 .. n |-> i + k - 1]
                IN  /\ a.allocated = n
                    /\ a.block_list = list
                    /\ \A b \in BlockIdx :
                          a.block_map[b] = (block_map[b] \/ (i <= b /\ b < i + n))
                    /\ a.used_blocks = used_blocks + n

(* C16 witness: create_file has made a file of two consecutive blocks     *)
(* past a free block that had no free neighbour                           *)
C16_Witness ==
    /\ call.op = "create" /\ call.ret = 0
    /\ \E i \in LiveSlots(FS) :
          /\ file_table[i].num_blocks = 2
          /\ file_table[i].blocks[2] = file_table[i].blocks[1] + 1
          /\ file_table[i].filename = strncpy(call.filename)
          /\ file_table[i].size = call.size
          /\ \E b \in BlockIdx : b < file_table[i].blocks[1] /\ ~block_map[b]

(* C17: create_file never comes to release blocks it was given: with a    *)
(* valid name that no live file has and a free slot, create_file(name,    *)
(* size) succeeds iff used_blocks + ceil(size / BLOCK_SIZE) <= MAX_BLOCKS *)
(* and otherwise fails for lack of space with no block marked occupied.   *)
C17_NoRollback ==
    AtPrompt =>
        /\ \A n \in AnyName \cup NewNames, size \in AnySize :
              create_file(FS, n, size).call.err # "alloc_failed"
        /\ \A n \in NewNames, size \in ValidSizes :
              (~Found(FS, n) /\ free_slot(FS) < MAX_FILES) =>
                 LET c == create_file(FS, n, size)
                 IN  IF used_blocks + Ceil(size) <= MAX_BLOCKS
                     THEN c.call.ret = 0
                     ELSE /\ c.call.ret = -1 /\ c.call.err = "no_space"
                          /\ c.fs = FS

(* C17 witness: create_file has failed for lack of space with a slot free *)
(* and blocks free, too few of them                                       *)
C17_Witness ==
    /\ call.op = "create" /\ call.ret = -1 /\ call.err = "no_space"
    /\ free_slot(FS) < MAX_FILES
    /\ FreeSet(block_map) # {}
    /\ \E i \in LiveSlots(FS) : Scattered(file_table[i])

(* ------------------------------------------------------------------ *)
(* The effect of write_file; the life of a file record                 *)
(* ------------------------------------------------------------------ *)

(* the block and the position in it of logical byte q of file *)
Place(file, q) == <<file.blocks[(q \div BLOCK_SIZE) + 1], q % BLOCK_SIZE>>

(* C18: a successful write_file(name, O, data) copies all len(data) bytes, *)
(* byte i of data to position (O+i) % BLOCK_SIZE of the file's block       *)
(* blocks[(O+i) / BLOCK_SIZE], and leaves every other byte of storage,     *)
(* block_map, the file table and the counters unchanged.                   *)
C18_WriteEffect ==
    AtPrompt =>
        \A n \in FileNames :
            Found(FS, n) =>
                \A o \in AnyOffset, d \in Datas :
                    LET w       == write_file(FS, n, o, d)
                        file    == Entry(FS, n)
                        touched == {Place(file, o + i) : i \in 0 .. Len(d) - 1}
                    IN  w.call.ret = 0 =>
                           /\ w.call.bytes = Len(d)
                           /\ \A i \in 0 .. Len(d) - 1 :
                                 /\ (o + i) \div BLOCK_SIZE < file.num_blocks
                                 /\ w.fs.blocks[Place(file, o + i)[1]][Place(file, o + i)[2]]
                                        = d[i + 1]
                           /\ \A b \in BlockIdx, p \in 0 .. BLOCK_SIZE - 1 :
                                 <<b, p>> \notin touched =>
                                     w.fs.blocks[b][p] = blocks[b][p]
                           /\ [w.fs EXCEPT !.blocks = blocks] = FS

(* C18 witness: a write across two blocks has returned 0 in a file that   *)
(* keeps a byte from before it, next to another file that holds data      *)
C18_Witness ==
    /\ call.op = "write" /\ call.ret = 0 /\ call.bytes = 2
    /\ Straddles(call.offset, Len(call.data))
    /\ LET file == Entry(FS, call.filename)
           own  == {file.blocks[k] : k \in 1 .. file.num_blocks}
       IN  /\ \E b \in BlockIdx \ own : blocks[b] # ZeroBlock
           /\ file.size >= call.offset + Len(call.data) + 1

(* every in-use entry has a size in 1 .. MAX_FILE_SIZE and the block count *)
(* and block list of that size                                             *)
EntriesWellFormed ==
    \A i \in LiveSlots(FS) :
        /\ 1 <= file_table[i].size /\ file_table[i].size <= MAX_FILE_SIZE
        /\ file_table[i].num_blocks = Ceil(file_table[i].size)
        /\ Len(file_table[i].blocks) = file_table[i].num_blocks

(* a step changes an in-use entry only by deleting it *)
EntriesFixed ==
    \A i \in SlotIdx :
        (file_table[i].in_use /\ file_table'[i] # file_table[i]) =>
            /\ call'.op = "delete" /\ call'.ret = 0
            /\ call'.filename = file_table[i].filename
            /\ file_table'[i] = FreeEntry

(* C19: every in-use entry has 1 <= size <= MAX_FILE_SIZE and num_blocks   *)
(* = ceil(size / BLOCK_SIZE), and its size, num_blocks and block list stay *)
(* as create_file set them until the delete_file that removes it.          *)
C19_RecordsFixed == []EntriesWellFormed /\ [][EntriesFixed]_vars

(* C19 witness: a file whose last block is partly used has been written   *)
(* to, after another file was made                                        *)
C19_Witness ==
    /\ call.op = "write" /\ call.ret = 0 /\ call.bytes >= 1
    /\ Entry(FS, call.filename).size % BLOCK_SIZE # 0
    /\ Entry(FS, call.filename).num_blocks >= 2
    /\ find_file(FS, call.filename) < MAX_FILES - 1
    /\ file_table[MAX_FILES - 1].in_use

(* ------------------------------------------------------------------ *)
(* free_blocks on any block list                                       *)
(* ------------------------------------------------------------------ *)

(* block indices, in range and out of range *)
Indices == BlockIdx \cup {MAX_BLOCKS, SIZE_MAX}

RECURSIVE ListsUpTo(_)
ListsUpTo(n) ==
    IF n = 0 THEN {<<>>}
    ELSE LET S == ListsUpTo(n - 1)
         IN  S \cup {Append(l, b) : l \in {t \in S : Len(t) = n - 1}, b \in Indices}

BlockLists == ListsUpTo(MaxList)

(* the part of the state free_blocks works on *)
Store == [blocks |-> blocks, block_map |-> block_map, used_blocks |-> used_blocks]

(* the occupied blocks that list names *)
Releasable(list) ==
    {b \in BlockIdx : block_map[b] /\ \E k \in 1 .. Len(list) : list[k] = b}

(* C20: free_blocks called twice with the same block list leaves          *)
(* block_map, the blocks and used_blocks as one call does; an index out   *)
(* of range or already free is skipped and changes nothing, used_blocks   *)
(* included.                                                              *)
C20_ReleaseIdempotent ==
    AtPrompt =>
        \A list \in BlockLists :
            \A once \in {free_blocks(Len(list), list, Store)}, rel \in {Releasable(list)} :
                /\ free_blocks(Len(list), list, once) = once
                /\ rel = {} => once = Store
                /\ once.used_blocks = used_blocks - Cardinality(rel)
                /\ \A b \in BlockIdx \ rel :
                      once.block_map[b] = block_map[b] /\ once.blocks[b] = blocks[b]
                /\ \A b \in rel :
                      ~once.block_map[b] /\ once.blocks[b] = ZeroBlock

(* C20 witness: after a delete_file, a list of a block it has freed, an   *)
(* occupied block and an index out of range: free_blocks releases the     *)
(* occupied block once                                                    *)
C20_Witness ==
    /\ call.op = "delete" /\ call.ret = 0
    /\ \E f \in FreeSet(block_map), b \in Occupied(FS) :
          LET list == <<f, b, MAX_BLOCKS, b>>
              once == free_blocks(4, list, Store)
          IN  /\ once # Store
              /\ once.used_blocks = used_blocks - 1
              /\ free_blocks(4, list, once) = once

====
